---- MODULE Spec2Model ----
(***************************************************************************)
(* Consensus aggregation and embedding similarity search of realdb09/fins. *)
(*                                                                         *)
(* Strings whose characters matter (raw ratings) are sequences of          *)
(* one-character strings.  A Hangul syllable is one character, written by  *)
(* its romanisation: "mae" (U+B9E4), "su" (U+C218), "do" (U+B3C4),         *)
(* "jeok" (U+C801), "geuk" (U+ADF9).                                       *)
(* Vectors are integer sequences in fifths (a unit vector has norm 5) and  *)
(* similarity scores are integers in hundredths (0.5 is 50).               *)
(* Dates are integers yyyymmdd; None is the string "None".                 *)
(***************************************************************************)
EXTENDS Integers, Sequences, FiniteSets, TLC

VARIABLES
    rating_raw,     \* normalize_rating: the argument
    rating_out,     \* normalize_rating: the returned RatingEnum, "unset" before the call
    reports,        \* table consensus_reports: a set of rows
    nextId,         \* the autoincrement counter of consensus_reports.id
    embeddings,     \* table vector_embeddings: a set of rows (report_id, embedding)
    pc,             \* per worker: where it is inside save_consensus_report
    call,           \* per worker: the current / last save_consensus_report call
    issued,         \* history: the report ids returned so far, per parsed triple
    last,           \* the read operation (search / summary) completed since the last write step, and its result
    collect         \* collect_and_process_data: its batch, loop position, counters and results

vars == <<rating_raw, rating_out, reports, nextId, embeddings, pc, call, issued, last, collect>>

None == "None"

-----------------------------------------------------------------------------
(* Bounds *)

MaxFrags == 3       \* a raw rating input is a concatenation of at most MaxFrags fragments
MaxReports == 2     \* cap on the autoincrement counter
MaxSummaryRows == 3 \* rows in a store that a summary is taken from
MaxRuns == 2        \* runs of collect_and_process_data over the same data
MaxCount == 5       \* reports of one rating in an aggregate view handed to the insight

-----------------------------------------------------------------------------
(* RatingEnum and normalize_rating *)

RatingEnum == {"buy", "hold", "sell"}

\* str.lower() on one character
LowerChar(c) ==
    CASE c = "B" -> "b" [] c = "U" -> "u" [] c = "Y" -> "y"
      [] c = "S" -> "s" [] c = "E" -> "e" [] c = "L" -> "l"
      [] c = "T" -> "t" [] c = "R" -> "r" [] c = "O" -> "o"
      [] c = "N" -> "n" [] c = "G" -> "g" [] c = "H" -> "h"
      [] c = "D" -> "d"
      [] OTHER -> c

\* str.lower()
Lower(s) == [i \in 1..Len(s) |-> LowerChar(s[i])]

\* Python's `k in s` on strings
InStr(k, s) ==
    \E i \in 1..(Len(s) - Len(k) + 1) : SubSeq(s, i, i + Len(k) - 1) = k

BuyKeywords ==
    << <<"b","u","y">>,
       <<"mae","su">>,
       <<"s","t","r","o","n","g"," ","b","u","y">>,
       <<"jeok","geuk","mae","su">> >>

SellKeywords ==
    << <<"s","e","l","l">>,
       <<"mae","do">>,
       <<"s","t","r","o","n","g"," ","s","e","l","l">>,
       <<"jeok","geuk","mae","do">> >>

\* any(keyword in rating_lower for keyword in keywords)
AnyKeyword(keywords, rating_lower) ==
    \E n \in 1..Len(keywords) : InStr(keywords[n], rating_lower)

\* A plausible slip: the sell family is tested before the buy family.
normalize_rating_sell_first(raw) ==
    LET rating_lower == Lower(raw) IN
    IF AnyKeyword(SellKeywords, rating_lower) THEN "sell"
    ELSE IF AnyKeyword(BuyKeywords, rating_lower) THEN "buy"
    ELSE "hold"

\* A plausible slip: an empty rating is rejected instead of defaulting to hold.
normalize_rating_reject_empty(raw) ==
    LET rating_lower == Lower(raw) IN
    IF raw = <<>> THEN "ValueError"
    ELSE IF AnyKeyword(BuyKeywords, rating_lower) THEN "buy"
    ELSE IF AnyKeyword(SellKeywords, rating_lower) THEN "sell"
    ELSE "hold"

normalize_rating(raw) ==
    LET rating_lower == Lower(raw) IN
    IF AnyKeyword(BuyKeywords, rating_lower) THEN "buy"
    ELSE IF AnyKeyword(SellKeywords, rating_lower) THEN "sell"
    ELSE "hold"

\* The fragments raw rating inputs are built from
Fragments ==
    { <<>>,
      <<"B","u","y">>, <<"b","u">>, <<"Y">>,
      <<"S","E","L","L">>, <<"s","e">>, <<"l","l">>,
      <<"S","t","r","o","n","g"," ">>,
      <<"H","o","l","d">>,
      <<"mae","su">>, <<"mae">>, <<"do">>,
      <<"jeok","geuk">> }

RECURSIVE Concats(_)
Concats(n) ==
    IF n = 0 THEN { <<>> }
    ELSE { f \o s : f \in Fragments, s \in Concats(n - 1) }

RawRatings == Concats(MaxFrags)

-----------------------------------------------------------------------------
(* The stores, the encoder and the inputs of ingestion *)

\* The worker processes (run_server.py --workers) that share the database
Workers == {"w1", "w2"}

\* report_data dictionaries handed to save_consensus_report
Feed ==
    { [stock_code |-> "005930", security_firm |-> "Mirae",
       rating_raw |-> <<"B","u","y">>, target_price |-> 85000,
       report_date |-> "2024-01-15", analysis_content |-> "memory"],
      [stock_code |-> "005930", security_firm |-> "Mirae",
       rating_raw |-> <<"mae","do">>, target_price |-> 90000,
       report_date |-> "2024-1-15", analysis_content |-> "hbm"],
      [stock_code |-> "005930", security_firm |-> "Samsung",
       rating_raw |-> <<"S","t","r","o","n","g"," ","B","u","y">>, target_price |-> 95000,
       report_date |-> "2024-01-16", analysis_content |-> "memory"],
      [stock_code |-> "000660", security_firm |-> "Samsung",
       rating_raw |-> <<"H","o","l","d">>, target_price |-> 150000,
       report_date |-> "2024-01-16", analysis_content |-> "hbm"],
      [stock_code |-> "035420", security_firm |-> "NH",
       rating_raw |-> <<"S","E","L","L">>, target_price |-> 200000,
       report_date |-> "2024-01-17"],
      [stock_code |-> "000660", security_firm |-> "NH",
       rating_raw |-> <<"B","u","y">>, target_price |-> 150000,
       report_date |-> "15/01/2024", analysis_content |-> "hbm"] }

\* datetime.strptime(s, '%Y-%m-%d').date(): %m and %d accept one or two digits
strptime(s) ==
    CASE s = "2024-01-15" -> [ok |-> TRUE, date |-> 20240115]
      [] s = "2024-1-15"  -> [ok |-> TRUE, date |-> 20240115]
      [] s = "2024-01-16" -> [ok |-> TRUE, date |-> 20240116]
      [] s = "2024-01-17" -> [ok |-> TRUE, date |-> 20240117]
      [] OTHER            -> [ok |-> FALSE, date |-> None]

\* date.isoformat()
isoformat(d) ==
    CASE d = 20240115 -> "2024-01-15"
      [] d = 20240116 -> "2024-01-16"
      [] d = 20240117 -> "2024-01-17"
      [] OTHER        -> "0001-01-01"

\* SentenceTransformer.encode(text, normalize_embeddings=True): deterministic, unit norm
Texts == {"memory", "hbm", "outlook"}

generate_embedding(text) ==
    CASE text = "memory"  -> <<5, 0>>
      [] text = "hbm"     -> <<4, 3>>
      [] text = "outlook" -> <<3, 4>>

\* _initialize_model: a service whose configured model fails to load falls back to
\* 'all-MiniLM-L6-v2', a model of another dimension
Models == {"configured", "fallback"}

fallback_embedding(text) ==
    CASE text = "memory"  -> <<5, 0, 0>>
      [] text = "hbm"     -> <<0, 4, 3>>
      [] text = "outlook" -> <<3, 0, 4>>

\* self.model.encode(text, normalize_embeddings=True) of a service that loaded `model`
Encode(model, text) ==
    IF model = "configured" THEN generate_embedding(text) ELSE fallback_embedding(text)

pickle_dumps(v) == <<"pickle", v>>
pickle_loads(b) == b[2]

\* The key of the unique index uk_report
Triple(row) == <<row.stock_code, row.security_firm, row.report_date>>

\* A schema without the unique index
uk_report_absent(rows, new) == FALSE

\* Index('uk_report', 'stock_code', 'security_firm', 'report_date', unique=True):
\* the insert of `new` into `rows` is rejected
uk_report(rows, new) == \E r \in rows : Triple(r) = Triple(new)

\* A plausible slip: the duplicate check also compares the rating text.
ExistingReports_same_rating(rows, rd, d) ==
    { r \in rows : /\ r.stock_code = rd.stock_code
                   /\ r.security_firm = rd.security_firm
                   /\ r.report_date = d
                   /\ r.rating_raw = rd.rating_raw }

\* The duplicate check of save_consensus_report: query(...).filter(...)
ExistingReports(rows, rd, d) ==
    { r \in rows : /\ r.stock_code = rd.stock_code
                   /\ r.security_firm = rd.security_firm
                   /\ r.report_date = d }

\* ConsensusReport(...) as built by save_consensus_report
\* A plausible slip: the row is built without normalizing and gets a fixed rating.
NewReport_fixed_rating(id, rd) ==
    [id            |-> id,
     stock_code    |-> rd.stock_code,
     security_firm |-> rd.security_firm,
     rating_raw    |-> rd.rating_raw,
     rating_norm   |-> "hold",
     target_price  |-> rd.target_price,
     report_date   |-> strptime(rd.report_date).date]

NewReport(id, rd) ==
    [id            |-> id,
     stock_code    |-> rd.stock_code,
     security_firm |-> rd.security_firm,
     rating_raw    |-> rd.rating_raw,
     rating_norm   |-> normalize_rating(rd.rating_raw),
     target_price  |-> rd.target_price,
     report_date   |-> strptime(rd.report_date).date]

\* VectorEmbedding(report_id=..., embedding=...)
EmbeddingRow(report_id, embedding_blob) ==
    [report_id |-> report_id, embedding |-> embedding_blob]

\* lines 79-81: query(VectorEmbedding).filter(report_id == report_id)
ExistingEmbeddings(embs, report_id) == { e \in embs : e.report_id = report_id }

\* A plausible slip: report_id is not declared the primary key.
pk_vector_absent(embs, new) == FALSE

\* models.py: report_id is the primary key of vector_embeddings; TRUE when inserting
\* `new` violates it
pk_vector(embs, new) == \E e \in embs : e.report_id = new.report_id

\* lines 83-93: `if existing:` UPDATE the row of that key, else INSERT a row; commit.
\* `existing` is what the query of lines 79-81 found; ok is FALSE when the commit raises.
WriteEmbedding(embs, existing, report_id, embedding_blob) ==
    IF existing # {}
    THEN [ok   |-> TRUE,
          embs |-> { IF e.report_id = report_id
                     THEN EmbeddingRow(e.report_id, embedding_blob) ELSE e : e \in embs }]
    ELSE LET new_embedding == EmbeddingRow(report_id, embedding_blob) IN
         IF pk_vector(embs, new_embedding)
         THEN [ok |-> FALSE, embs |-> embs]
         ELSE [ok |-> TRUE, embs |-> embs \cup {new_embedding}]

\* save_embedding run without interruption: encode, look up, write, commit
save_embedding(embs, report_id, text) ==
    WriteEmbedding(embs, ExistingEmbeddings(embs, report_id), report_id,
                   pickle_dumps(generate_embedding(text))).embs

\* the call record of a worker that has not been called; its argument is a dictionary
\* without the keys of a report_data
NoData == [none |-> None]

NoCall == [data |-> NoData, outcome |-> "none", ret |-> None, seen |-> {}, embedded |-> "none"]

NoRead == [op |-> "none"]

\* no run of collect_and_process_data
NoCollect == [phase |-> "none"]

-----------------------------------------------------------------------------
(* Initial states *)

InitStores ==
    /\ reports = {}
    /\ nextId = 1
    /\ embeddings = {}
    /\ pc = [p \in Workers |-> "idle"]
    /\ call = [p \in Workers |-> NoCall]
    /\ issued = {}
    /\ last = NoRead
    /\ collect = NoCollect

Init ==
    /\ InitStores
    /\ rating_raw = << >>
    /\ rating_out = "unset"

InitNorm ==
    /\ InitStores
    /\ rating_raw \in RawRatings
    /\ rating_out = "unset"

-----------------------------------------------------------------------------
(* normalize_rating as an operation *)

Normalize ==
    /\ rating_out = "unset"
    /\ rating_out' = normalize_rating(rating_raw)
    /\ UNCHANGED <<rating_raw, reports, nextId, embeddings, pc, call, issued, last, collect>>

-----------------------------------------------------------------------------
(* save_consensus_report, one step per database statement *)

Returned(p, outcome, ret) ==
    /\ pc' = [pc EXCEPT ![p] = "idle"]
    /\ call' = [call EXCEPT ![p].outcome = outcome, ![p].ret = ret]

\* A plausible slip: the handler logs the exception and raises it again.
FailureReturn_reraise(exception) == [outcome |-> "raise", ret |-> None]

\* lines 133-135: `except Exception as e:` log it, `return None`
FailureReturn(exception) == [outcome |-> exception, ret |-> None]

\* A plausible slip: a duplicate refreshes the stored row from the new report_data.
ReportsAfterDuplicate_upsert(rows, existing, rd) ==
    (rows \ {existing}) \cup
        { [existing EXCEPT !.rating_raw   = rd.rating_raw,
                           !.rating_norm  = normalize_rating(rd.rating_raw),
                           !.target_price = rd.target_price] }

\* lines 101-103: `if existing: return existing.id` writes nothing
ReportsAfterDuplicate(rows, existing, rd) == rows

\* A plausible slip: a duplicate with analysis_content re-derives the embedding.
EmbeddingsAfterDuplicate_resaved(embs, existing, rd) ==
    IF "analysis_content" \in DOMAIN rd
    THEN save_embedding(embs, existing.id, rd.analysis_content)
    ELSE embs

\* lines 101-103: `if existing: return existing.id` comes before any embedding code
EmbeddingsAfterDuplicate(embs, existing, rd) == embs

\* A plausible slip: the embedding is saved once the row has its id, before the commit.
EmbeddingsBeforeCommit_early(embs, id, rd) ==
    IF "analysis_content" \in DOMAIN rd
    THEN save_embedding(embs, id, rd.analysis_content)
    ELSE embs

\* lines 105-119: nothing is written to the embedding store until the row is committed
EmbeddingsBeforeCommit(embs, id, rd) == embs

\* lines 91-103: parse the date, run the duplicate query, return the existing id
SaveCheck(p, rd) ==
    /\ pc[p] = "idle"
    /\ nextId + Cardinality({q \in Workers : pc[q] = "checked"}) <= MaxReports
    /\ last' = NoRead
    /\ LET d == strptime(rd.report_date) IN
       IF ~d.ok
       THEN \* strptime raises ValueError; except Exception: return None
            /\ pc' = pc
            /\ call' = [call EXCEPT ![p] =
                          [data |-> rd, outcome |-> FailureReturn("ValueError").outcome,
                           ret |-> FailureReturn("ValueError").ret, seen |-> {},
                           embedded |-> "none"]]
            /\ UNCHANGED <<reports, nextId, embeddings, issued>>
       ELSE LET t == <<rd.stock_code, rd.security_firm, d.date>>
                seen == { i[2] : i \in { j \in issued : j[1] = t } }
                found == ExistingReports(reports, rd, d.date)
            IN  IF found # {}
                THEN \E existing \in found :     \* .first()
                        /\ pc' = pc
                        /\ call' = [call EXCEPT ![p] =
                              [data |-> rd, outcome |-> "existing",
                               ret |-> existing.id, seen |-> seen, embedded |-> "none"]]
                        /\ issued' = issued \cup {<<t, existing.id>>}
                        /\ reports' = ReportsAfterDuplicate(reports, existing, rd)
                        /\ embeddings' = EmbeddingsAfterDuplicate(embeddings, existing, rd)
                        /\ UNCHANGED nextId
                ELSE /\ pc' = [pc EXCEPT ![p] = "checked"]
                     /\ call' = [call EXCEPT ![p] =
                              [data |-> rd, outcome |-> "pending",
                               ret |-> None, seen |-> seen, embedded |-> "none"]]
                     /\ embeddings' = EmbeddingsBeforeCommit(embeddings, nextId, rd)
                     /\ UNCHANGED <<reports, nextId, issued>>
    /\ UNCHANGED <<rating_raw, rating_out>>

\* lines 105-119: build the row, session.add, session.commit, session.refresh
SaveCommit(p) ==
    /\ pc[p] = "checked"
    /\ LET rd == call[p].data
           new_report == NewReport(nextId, rd)
       IN  IF uk_report(reports, new_report)
           THEN \* IntegrityError: get_session rolls back, except Exception: return None
                /\ Returned(p, FailureReturn("IntegrityError").outcome,
                               FailureReturn("IntegrityError").ret)
                /\ UNCHANGED <<reports, nextId, issued>>
           ELSE /\ reports' = reports \cup {new_report}
                /\ nextId' = nextId + 1
                /\ IF "analysis_content" \in DOMAIN rd
                   THEN /\ pc' = [pc EXCEPT ![p] = "committed"]
                        /\ call' = [call EXCEPT ![p].ret = new_report.id]
                        /\ UNCHANGED issued
                   ELSE /\ Returned(p, "created", new_report.id)
                        /\ issued' = issued \cup {<<Triple(new_report), new_report.id>>}
    /\ last' = NoRead
    /\ UNCHANGED <<rating_raw, rating_out, embeddings>>

\* A plausible slip: the result of save_embedding is checked and a failed embedding
\* makes the ingestion fail.
EmbedReturn_checked(saved, id) ==
    IF saved THEN [outcome |-> "created", ret |-> id]
    ELSE [outcome |-> "EmbeddingError", ret |-> None]

\* lines 122-131: the result of save_embedding is dropped; return new_report.id
EmbedReturn(saved, id) == [outcome |-> "created", ret |-> id]

\* lines 121-131: run save_embedding in the executor, then return new_report.id;
\* save_embedding returns False when the encoder or the store fails
SaveEmbed(p) ==
    /\ pc[p] = "committed"
    /\ LET rd == call[p].data
           id == call[p].ret
       IN  /\ \E saved \in BOOLEAN :
                /\ embeddings' = IF saved
                                 THEN save_embedding(embeddings, id, rd.analysis_content)
                                 ELSE embeddings
                /\ pc' = [pc EXCEPT ![p] = "idle"]
                /\ call' = [call EXCEPT
                              ![p].outcome = EmbedReturn(saved, id).outcome,
                              ![p].ret = EmbedReturn(saved, id).ret,
                              ![p].embedded = IF saved THEN "saved" ELSE "failed"]
           /\ issued' = issued \cup
                  {<<<<rd.stock_code, rd.security_firm, strptime(rd.report_date).date>>, id>>}
    /\ last' = NoRead
    /\ UNCHANGED <<rating_raw, rating_out, reports, nextId>>

\* save_consensus_report called by a worker on its own (a request or a script)
save_consensus_report(p) ==
    \/ (\E rd \in Feed : SaveCheck(p, rd)) /\ UNCHANGED collect
    \/ SaveCommit(p) /\ UNCHANGED collect
    \/ SaveEmbed(p) /\ UNCHANGED collect

-----------------------------------------------------------------------------
(* collect_and_process_data *)

\* what collect_sample_consensus_data may hand to the loop: lists of report_data
Batches == UNION { [1..n -> Feed] : n \in 1..MaxReports }

\* A plausible slip: only a newly created report counts as processed.
IsProcessed_created_only(c) == c.outcome = "created"

\* lines 151-155: `if report_id:` of the value save_consensus_report returned
IsProcessed(c) == c.outcome \in {"created", "existing"} /\ c.ret # 0

\* lines 141-147: fetch the data, set both counters to 0, enter the loop
CollectStart ==
    /\ collect.phase \in {"idle", "done"}
    /\ Len(collect.results) < MaxRuns
    /\ collect' = [collect EXCEPT !.phase = "call", !.pos = 1,
                                  !.processed_count = 0, !.failed_count = 0,
                                  !.returned = << >>]
    /\ UNCHANGED <<rating_raw, rating_out, reports, nextId, embeddings, pc, call, issued, last>>

\* line 150: `await self.save_consensus_report(report_data)` is entered
CollectCall ==
    /\ collect.phase = "call"
    /\ SaveCheck("w1", collect.batch[collect.pos])
    /\ collect' = [collect EXCEPT !.phase = "await"]

\* line 150: the awaited call goes on
CollectAwait ==
    /\ collect.phase = "await"
    /\ SaveCommit("w1") \/ SaveEmbed("w1")
    /\ UNCHANGED collect

\* lines 151-166: the call has returned; count it, and after the last report build the
\* result.  `returned` and `rows_after` are history: whether each call of the run
\* returned an identifier, and the number of report rows at the end of each run.
CollectCount ==
    /\ collect.phase = "await"
    /\ pc["w1"] = "idle"
    /\ LET c == call["w1"]
           processed_count == collect.processed_count + (IF IsProcessed(c) THEN 1 ELSE 0)
           failed_count == collect.failed_count + (IF IsProcessed(c) THEN 0 ELSE 1)
           returned == Append(collect.returned, c.outcome \in {"created", "existing"})
       IN  IF collect.pos < Len(collect.batch)
           THEN collect' = [collect EXCEPT !.phase = "call", !.pos = @ + 1,
                                          !.processed_count = processed_count,
                                          !.failed_count = failed_count,
                                          !.returned = returned]
           ELSE collect' = [collect EXCEPT
                              !.phase = "done",
                              !.processed_count = processed_count,
                              !.failed_count = failed_count,
                              !.returned = returned,
                              !.results = Append(@,
                                  [status          |-> "completed",
                                   processed_count |-> processed_count,
                                   failed_count    |-> failed_count,
                                   total_count     |-> Len(collect.batch),
                                   returned        |-> returned]),
                              !.rows_after = Append(@, Cardinality(reports))]
    /\ UNCHANGED <<rating_raw, rating_out, reports, nextId, embeddings, pc, call, issued, last>>

collect_and_process_data ==
    \/ CollectStart
    \/ CollectCall
    \/ CollectAwait
    \/ CollectCount

-----------------------------------------------------------------------------
(* save_embedding called on the service, statement by statement *)

\* the report ids save_embedding is called with
ReportIds == 1..MaxReports

\* lines 73-81: encode the text, pickle it, look the row of report_id up; a failing
\* encoder ends in `except Exception: return False`
EmbedCheck(p, report_id, text) ==
    /\ pc[p] = "idle"
    /\ \E encoded \in BOOLEAN :
          IF ~encoded
          THEN /\ pc' = pc
               /\ call' = [call EXCEPT ![p] =
                     [data |-> [report_id |-> report_id, text |-> text],
                      outcome |-> "return", ret |-> FALSE, seen |-> {},
                      embedded |-> "failed"]]
          ELSE /\ pc' = [pc EXCEPT ![p] = "emb_checked"]
               /\ call' = [call EXCEPT ![p] =
                     [data |-> [report_id |-> report_id, text |-> text],
                      outcome |-> "pending", ret |-> None,
                      seen |-> ExistingEmbeddings(embeddings, report_id),
                      embedded |-> "none"]]
    /\ last' = NoRead
    /\ UNCHANGED <<rating_raw, rating_out, reports, nextId, embeddings, issued, collect>>

\* lines 83-98: write the row, commit, return True; a failing commit returns False
EmbedCommit(p) ==
    /\ pc[p] = "emb_checked"
    /\ LET w == WriteEmbedding(embeddings, call[p].seen, call[p].data.report_id,
                               pickle_dumps(generate_embedding(call[p].data.text)))
       IN  /\ embeddings' = w.embs
           /\ pc' = [pc EXCEPT ![p] = "idle"]
           /\ call' = [call EXCEPT ![p].outcome = "return",
                                   ![p].ret = w.ok,
                                   ![p].embedded = IF w.ok THEN "saved" ELSE "failed"]
    /\ last' = NoRead
    /\ UNCHANGED <<rating_raw, rating_out, reports, nextId, issued, collect>>

save_embedding_call(p) ==
    \/ \E report_id \in ReportIds, text \in Texts : EmbedCheck(p, report_id, text)
    \/ EmbedCommit(p)

-----------------------------------------------------------------------------
(* search_similar_reports *)

LimitMin == 1       \* SearchRequest.limit: ge=1
LimitMax == 50      \* SearchRequest.limit: le=50

\* limits, thresholds (hundredths) and stock_code filters a search is called with
Limits == {LimitMin, 2, 5, LimitMax}
Thresholds == {30, 50, 80}
StockCodes == {"005930", "000660", "035420"}

\* all orders in which a query without ORDER BY can yield the rows of S
ScanOrders(S) ==
    { s \in [1..Cardinality(S) -> S] : \A i, j \in DOMAIN s : i # j => s[i] # s[j] }

ISqrt(n) == CHOOSE k \in 0..n : k * k <= n /\ n < (k + 1) * (k + 1)

RECURSIVE SumSeq(_)
SumSeq(s) == IF s = << >> THEN 0 ELSE Head(s) + SumSeq(Tail(s))

Dot(a, b) == SumSeq([i \in 1..Len(a) |-> a[i] * b[i]])
Norm(a) == ISqrt(Dot(a, a))

\* sklearn cosine_similarity of two row vectors, in hundredths;
\* rows of different length raise ValueError
cosine_similarity(a, b) ==
    IF Len(a) # Len(b) THEN [ok |-> FALSE, value |-> 0]
    ELSE LET na == IF Norm(a) = 0 THEN 1 ELSE Norm(a)
             nb == IF Norm(b) = 0 THEN 1 ELSE Norm(b)
         IN  [ok |-> TRUE, value |-> (100 * Dot(a, b)) \div (na * nb)]

\* A plausible slip: the stock_code filter is not applied.
JoinedRows_unfiltered(rows, embs, stock_code) ==
    { pair \in embs \X rows : pair[1].report_id = pair[2].id }

\* lines 113-123: session.query(VectorEmbedding, ConsensusReport).join(...) and,
\* `if stock_code:`, the filter: the (embedding_row, report_row) pairs
JoinedRows(rows, embs, stock_code) ==
    { pair \in embs \X rows :
        /\ pair[1].report_id = pair[2].id
        /\ (stock_code # None /\ stock_code # "") => pair[2].stock_code = stock_code }

\* one entry of `similarities`
Match(report_row, similarity) ==
    [report_id        |-> report_row.id,
     stock_code       |-> report_row.stock_code,
     security_firm    |-> report_row.security_firm,
     rating_norm      |-> report_row.rating_norm,
     target_price     |-> report_row.target_price,
     report_date      |-> isoformat(report_row.report_date),
     similarity_score |-> similarity]

\* A plausible slip: the threshold test is dropped and every scored row is kept.
PassesThreshold_always(similarity, similarity_threshold) == similarity = similarity

\* A plausible slip: the comparison with the threshold is strict.
PassesThreshold_strict(similarity, similarity_threshold) ==
    similarity > similarity_threshold

\* line 134
PassesThreshold(similarity, similarity_threshold) ==
    similarity >= similarity_threshold

\* lines 126-143: the scoring loop over the joined pairs in scan order
RECURSIVE ScoreRows(_, _, _)
ScoreRows(results, query_embedding, similarity_threshold) ==
    IF results = << >> THEN << >>
    ELSE LET embedding_row == Head(results)[1]
             report_row == Head(results)[2]
             stored_embedding == pickle_loads(embedding_row.embedding)
             similarity == cosine_similarity(query_embedding, stored_embedding).value
             rest == ScoreRows(Tail(results), query_embedding, similarity_threshold)
         IN  IF PassesThreshold(similarity, similarity_threshold)
             THEN <<Match(report_row, similarity)>> \o rest
             ELSE rest

\* list.sort(key=similarity_score, reverse=True): stable, equal keys keep their order
RECURSIVE InsertDesc(_, _)
InsertDesc(sorted, m) ==
    IF sorted = << >> THEN <<m>>
    ELSE IF Head(sorted).similarity_score >= m.similarity_score
         THEN <<Head(sorted)>> \o InsertDesc(Tail(sorted), m)
         ELSE <<m>> \o sorted

\* A plausible slip: the list is returned in scan order, the sort left out.
SortDesc_unsorted(s) == s

RECURSIVE SortDesc(_)
SortDesc(s) ==
    IF s = << >> THEN << >>
    ELSE InsertDesc(SortDesc(SubSeq(s, 1, Len(s) - 1)), s[Len(s)])

\* A plausible slip: the slice keeps one entry too many.
Slice_off_by_one(s, limit) ==
    SubSeq(s, 1, IF limit + 1 < Len(s) THEN limit + 1 ELSE Len(s))

\* similarities[:limit]
Slice(s, limit) ==
    IF limit >= 0
    THEN SubSeq(s, 1, IF limit < Len(s) THEN limit ELSE Len(s))
    ELSE SubSeq(s, 1, IF Len(s) + limit > 0 THEN Len(s) + limit ELSE 0)

\* lines 108-152 for one scan order; `model` is the model the service loaded and
\* encoder_ok tells whether model.encode succeeds.  Any exception ends in
\* `except Exception: return []`.
SearchOutcome(results, model, encoder_ok, query_text, limit, similarity_threshold) ==
    IF ~encoder_ok
    THEN [fault |-> "EncodingFailure", outcome |-> "return",
          similarities |-> << >>, result |-> << >>]
    ELSE LET query_embedding == Encode(model, query_text)
             dims_ok == \A i \in 1..Len(results) :
                           cosine_similarity(query_embedding,
                               pickle_loads(results[i][1].embedding)).ok
             similarities ==
                 SortDesc(ScoreRows(results, query_embedding, similarity_threshold))
         IN  IF ~dims_ok
             THEN [fault |-> "DimensionMismatch", outcome |-> "return",
                   similarities |-> << >>, result |-> << >>]
             ELSE [fault |-> "none", outcome |-> "return",
                   similarities |-> similarities,
                   result |-> Slice(similarities, limit)]

\* A plausible slip: the query vector is kept in vector_embeddings under report id 0.
EmbeddingsAfterSearch_cached(embs, query_text) ==
    embs \cup {EmbeddingRow(0, pickle_dumps(generate_embedding(query_text)))}

\* search_similar_reports only queries and reads the session; the commit of
\* get_session after the block (or its rollback) has nothing to write
EmbeddingsAfterSearch(embs, query_text) == embs

Search(query_text, limit, similarity_threshold, stock_code) ==
    /\ last = NoRead
    /\ \E model \in Models, encoder_ok \in BOOLEAN :
       \E results \in ScanOrders(JoinedRows(reports, embeddings, stock_code)) :
          LET out == SearchOutcome(results, model, encoder_ok, query_text, limit,
                                   similarity_threshold)
          IN  last' = [op                   |-> "search",
                       query_text           |-> query_text,
                       limit                |-> limit,
                       similarity_threshold |-> similarity_threshold,
                       stock_code           |-> stock_code,
                       model                |-> model,
                       fault                |-> out.fault,
                       outcome              |-> out.outcome,
                       similarities         |-> out.similarities,
                       result               |-> out.result]
    /\ embeddings' = EmbeddingsAfterSearch(embeddings, query_text)
    /\ UNCHANGED <<rating_raw, rating_out, reports, nextId, pc, call, issued, collect>>

search_similar_reports ==
    \E query_text \in Texts, limit \in Limits, similarity_threshold \in Thresholds,
       stock_code \in StockCodes \cup {None} :
        Search(query_text, limit, similarity_threshold, stock_code)

-----------------------------------------------------------------------------
(* get_consensus_summary *)

\* A plausible slip: the mean is cut to two decimals instead of rounded.
Round2_truncate(n, d) == (100 * n) \div d

\* round(n / d, 2) in hundredths, ties to even
Round2(n, d) ==
    LET q == (100 * n) \div d
        r == (100 * n) % d
    IN  IF 2 * r > d \/ (2 * r = d /\ q % 2 = 1) THEN q + 1 ELSE q

RECURSIVE Aggregate_skip_hold(_, _)
\* A plausible slip: a row rated hold is not counted.
Aggregate_skip_hold(rows, acc) ==
    IF rows = << >> THEN acc
    ELSE LET report == Head(rows) IN
         Aggregate_skip_hold(Tail(rows),
            [rating_counts |-> IF report.rating_norm = "hold" THEN acc.rating_counts
                               ELSE [acc.rating_counts EXCEPT ![report.rating_norm] = @ + 1],
             target_prices |-> Append(acc.target_prices, report.target_price),
             latest_date   |-> IF acc.latest_date = << >>
                                  \/ report.report_date > acc.latest_date[1]
                               THEN <<report.report_date>> ELSE acc.latest_date])

RECURSIVE Aggregate_last_date(_, _)
\* A plausible slip: the date comparison is dropped and the last loaded row's date kept.
Aggregate_last_date(rows, acc) ==
    IF rows = << >> THEN acc
    ELSE LET report == Head(rows) IN
         Aggregate_last_date(Tail(rows),
            [rating_counts |-> [acc.rating_counts EXCEPT ![report.rating_norm] = @ + 1],
             target_prices |-> Append(acc.target_prices, report.target_price),
             latest_date   |-> <<report.report_date>>])

RECURSIVE Aggregate(_, _)
\* lines 190-194: the loop over the loaded rows; latest_date is << >> for None, else <<date>>
Aggregate(rows, acc) ==
    IF rows = << >> THEN acc
    ELSE LET report == Head(rows) IN
         Aggregate(Tail(rows),
            [rating_counts |-> [acc.rating_counts EXCEPT ![report.rating_norm] = @ + 1],
             target_prices |-> Append(acc.target_prices, report.target_price),
             latest_date   |-> IF acc.latest_date = << >>
                                  \/ report.report_date > acc.latest_date[1]
                               THEN <<report.report_date>> ELSE acc.latest_date])

\* line 183
NotFoundResult(stock_code) ==
    [error |-> <<"stock code ", stock_code, ": no report found">>]

\* lines 185-206: the aggregation and the returned dictionary
AggregateView(rows, stock_code) ==
    LET acc == Aggregate(rows, [rating_counts |-> [k \in RatingEnum |-> 0],
                               target_prices |-> << >>,
                               latest_date   |-> << >>])
    IN  [stock_code          |-> stock_code,
         total_reports       |-> Len(rows),
         rating_distribution |-> acc.rating_counts,
         average_target_price|-> IF acc.target_prices # << >>
                                 THEN Round2(SumSeq(acc.target_prices), Len(acc.target_prices))
                                 ELSE 0,
         latest_report_date  |-> IF acc.latest_date # << >>
                                 THEN isoformat(acc.latest_date[1]) ELSE None,
         report_count        |-> Len(rows)]

\* A plausible slip: the emptiness test is dropped and an empty aggregate is returned.
SummaryOf_no_check(rows, stock_code) == AggregateView(rows, stock_code)

\* lines 182-206: the returned dictionary for the loaded rows
SummaryOf(rows, stock_code) ==
    IF rows = << >> THEN NotFoundResult(stock_code)
    ELSE AggregateView(rows, stock_code)

\* the rows without the one at position k
WithoutRow(rows, k) == SubSeq(rows, 1, k - 1) \o SubSeq(rows, k + 1, Len(rows))

\* A plausible slip: the loop body is wrapped in try/except and a failing row skipped.
LoopOutcome_skip_row(rows, failing, stock_code) ==
    IF failing = 0 THEN SummaryOf(rows, stock_code)
    ELSE SummaryOf(WithoutRow(rows, failing), stock_code)

\* lines 182-210: `failing` is the position of the loaded row on which the loop body
\* raises (rating_norm.value or float(target_price) of a corrupt row), 0 for none; the
\* exception leaves the loop and ends in `except Exception as e: return {'error': str(e)}`
LoopOutcome(rows, failing, stock_code) ==
    IF failing = 0 THEN SummaryOf(rows, stock_code)
    ELSE [error |-> <<"TypeError">>]

\* lines 176-210 for one scan order; store_ok tells whether the query of lines 178-180
\* succeeds.  A failure leaves get_session through rollback and re-raise and ends in
\* `except Exception as e: return {'error': str(e)}`.
SummaryOutcome(rows, store_ok, failing, stock_code) ==
    IF ~store_ok
    THEN [fault |-> "StoreFailure", outcome |-> "return",
          result |-> [error |-> <<"OperationalError">>]]
    ELSE [fault   |-> IF failing = 0 THEN "none" ELSE "MalformedRow",
          outcome |-> "return",
          result  |-> LoopOutcome(rows, failing, stock_code)]

\* A plausible slip: the loop assigns to the loaded rows and get_session commits them.
ReportsAfterSummary_written(rows, stock_code) ==
    { IF r.stock_code = stock_code THEN [r EXCEPT !.target_price = 0] ELSE r : r \in rows }

\* get_consensus_summary only reads the session; the commit of get_session after the
\* block (or its rollback) has nothing to write
ReportsAfterSummary(rows, stock_code) == rows

\* the status codes of the route /consensus/{stock_code}
HttpOk == 200
HttpNotFound == 404

\* routes.get_consensus: `if 'error' in result: raise HTTPException(status_code=404)`
get_consensus(result) ==
    IF "error" \in DOMAIN result THEN HttpNotFound ELSE HttpOk

Summary(stock_code) ==
    /\ last = NoRead
    /\ \E store_ok \in BOOLEAN :
       \E rows \in ScanOrders({ r \in reports : r.stock_code = stock_code }) :
       \E failing \in 0..Len(rows) :
          LET out == SummaryOutcome(rows, store_ok, failing, stock_code)
          IN  last' = [op          |-> "summary",
                       stock_code  |-> stock_code,
                       fault       |-> out.fault,
                       outcome     |-> out.outcome,
                       result      |-> out.result,
                       http_status |-> get_consensus(out.result)]
    /\ reports' = ReportsAfterSummary(reports, stock_code)
    /\ UNCHANGED <<rating_raw, rating_out, nextId, embeddings, pc, call, issued, collect>>

get_consensus_summary ==
    \E stock_code \in StockCodes \cup {"999999"} : Summary(stock_code)

\* Stores that earlier ingestion left behind: row i is the report of firm i, built by
\* save_consensus_report from one of the report_data below.
SummaryFirms == <<"Mirae", "Samsung", "NH", "KB", "Kiwoom">>

SummaryFeed ==
    { [stock_code |-> "005930", rating_raw |-> <<"B","u","y">>,
       target_price |-> 100, report_date |-> "2024-01-15"],
      [stock_code |-> "005930", rating_raw |-> <<"H","o","l","d">>,
       target_price |-> 200, report_date |-> "2024-01-16"],
      [stock_code |-> "005930", rating_raw |-> <<"S","E","L","L">>,
       target_price |-> 300, report_date |-> "2024-01-17"],
      [stock_code |-> "005930", rating_raw |-> <<"mae","su">>,
       target_price |-> 100, report_date |-> "2024-01-17"],
      [stock_code |-> "005930", rating_raw |-> <<"N","e","u","t","r","a","l">>,
       target_price |-> 101, report_date |-> "2024-01-15"],
      [stock_code |-> "000660", rating_raw |-> <<"B","u","y">>,
       target_price |-> 150000, report_date |-> "2024-01-16"] }

SummaryRow(i, rd) ==
    NewReport(i, [stock_code    |-> rd.stock_code,
                  security_firm |-> SummaryFirms[i],
                  rating_raw    |-> rd.rating_raw,
                  target_price  |-> rd.target_price,
                  report_date   |-> rd.report_date])

SummaryStores ==
    UNION { { { SummaryRow(i, f[i]) : i \in 1..n } : f \in [1..n -> SummaryFeed] }
            : n \in 0..MaxSummaryRows }

-----------------------------------------------------------------------------
(* AIAnalysisService._generate_investment_insight: the investment opinion *)

\* count / total > tenths / 10; the ratio is 0 when total_reports is 0 (lines 101-102)
RatioAbove(count, total, tenths) == total > 0 /\ 10 * count > tenths * total

\* A plausible slip: the thresholds are tested with >=.
InvestmentOpinion_inclusive(rating_dist, total_reports) ==
    IF total_reports > 0 /\ 10 * rating_dist["buy"] >= 6 * total_reports
    THEN [investment_opinion |-> "Strong Buy", confidence |-> "High"]
    ELSE IF total_reports > 0 /\ 10 * rating_dist["buy"] >= 4 * total_reports
    THEN [investment_opinion |-> "Buy", confidence |-> "Medium"]
    ELSE IF total_reports > 0 /\ 10 * rating_dist["sell"] >= 4 * total_reports
    THEN [investment_opinion |-> "Sell", confidence |-> "Medium"]
    ELSE [investment_opinion |-> "Hold", confidence |-> "Low"]

\* lines 101-116
InvestmentOpinion(rating_dist, total_reports) ==
    IF RatioAbove(rating_dist["buy"], total_reports, 6)
    THEN [investment_opinion |-> "Strong Buy", confidence |-> "High"]
    ELSE IF RatioAbove(rating_dist["buy"], total_reports, 4)
    THEN [investment_opinion |-> "Buy", confidence |-> "Medium"]
    ELSE IF RatioAbove(rating_dist["sell"], total_reports, 4)
    THEN [investment_opinion |-> "Sell", confidence |-> "Medium"]
    ELSE [investment_opinion |-> "Hold", confidence |-> "Low"]

\* the aggregate views handed to the insight: total_reports is the sum of the counts,
\* as get_consensus_summary builds it
ConsensusData ==
    { [rating_distribution |-> [buy |-> b, hold |-> h, sell |-> s],
       total_reports |-> b + h + s] : b \in 0..MaxCount, h \in 0..MaxCount, s \in 0..MaxCount }

generate_investment_insight ==
    /\ last = NoRead
    /\ \E consensus_data \in ConsensusData :
          last' = [op             |-> "insight",
                   consensus_data |-> consensus_data,
                   result         |-> InvestmentOpinion(consensus_data.rating_distribution,
                                                        consensus_data.total_reports)]
    /\ UNCHANGED <<rating_raw, rating_out, reports, nextId, embeddings, pc, call, issued, collect>>

-----------------------------------------------------------------------------
(* Specifications *)

NextNorm == Normalize

SpecNorm == InitNorm /\ [][NextNorm]_vars

\* ingestion by the concurrent workers
Next == \E p \in Workers : save_consensus_report(p)

Spec == Init /\ [][Next]_vars

\* one worker ingesting, and the read operations on the stores it builds
NextQuery ==
    \/ save_consensus_report("w1")
    \/ search_similar_reports
    \/ get_consensus_summary

SpecQuery == Init /\ [][NextQuery]_vars

\* save_embedding called by the concurrent workers
NextEmbed == \E p \in Workers : save_embedding_call(p)

SpecEmbed == Init /\ [][NextEmbed]_vars

\* runs of collect_and_process_data, one after the other, over the same data
InitCollect ==
    /\ reports = {}
    /\ nextId = 1
    /\ embeddings = {}
    /\ pc = [p \in Workers |-> "idle"]
    /\ call = [p \in Workers |-> NoCall]
    /\ issued = {}
    /\ last = NoRead
    /\ rating_raw = << >>
    /\ rating_out = "unset"
    /\ \E batch \in Batches :
          collect = [phase |-> "idle", batch |-> batch, pos |-> 0,
                     processed_count |-> 0, failed_count |-> 0, returned |-> << >>,
                     results |-> << >>, rows_after |-> << >>]

NextCollect == collect_and_process_data

SpecCollect == InitCollect /\ [][NextCollect]_vars

\* the investment opinion of every aggregate view
NextInsight == generate_investment_insight

SpecInsight == Init /\ [][NextInsight]_vars

\* summaries taken from the stores earlier ingestion left behind
InitSummary ==
    /\ reports \in SummaryStores
    /\ nextId = Cardinality(reports) + 1
    /\ embeddings = {}
    /\ pc = [p \in Workers |-> "idle"]
    /\ call = [p \in Workers |-> NoCall]
    /\ issued = {}
    /\ last = NoRead
    /\ collect = NoCollect
    /\ rating_raw = << >>
    /\ rating_out = "unset"

NextSummary == get_consensus_summary

SpecSummary == InitSummary /\ [][NextSummary]_vars

-----------------------------------------------------------------------------
(* Rating normalizer: claims C1, C2 (SpecNorm) *)

\* k occurs in s as a contiguous run of characters
Occurs(k, s) ==
    \E i \in 1..Len(s) :
        \A j \in 1..Len(k) : i + j - 1 <= Len(s) /\ s[i + j - 1] = k[j]

HasBuyFamily(raw) == \E n \in DOMAIN BuyKeywords : Occurs(BuyKeywords[n], Lower(raw))
HasSellFamily(raw) == \E n \in DOMAIN SellKeywords : Occurs(SellKeywords[n], Lower(raw))

\* C1: a raw rating whose lower-cased text contains a buy-family keyword normalizes
\* to buy (also when a sell-family keyword is present); one with a sell-family
\* keyword and no buy-family keyword to sell; one with neither to hold.
C1_NormalizePrecedence ==
    rating_out # "unset" =>
        /\ HasBuyFamily(rating_raw) => rating_out = "buy"
        /\ (HasSellFamily(rating_raw) /\ ~HasBuyFamily(rating_raw)) => rating_out = "sell"
        /\ (~HasSellFamily(rating_raw) /\ ~HasBuyFamily(rating_raw)) => rating_out = "hold"

\* a rating with both families has been normalized
C1_Witness ==
    /\ rating_out = "buy"
    /\ HasBuyFamily(rating_raw)
    /\ HasSellFamily(rating_raw)

\* C2: normalize_rating has no error outcome: every string, the empty one included,
\* yields a member of RatingEnum, and the empty string yields hold.
C2_NormalizeTotal ==
    rating_out # "unset" =>
        /\ rating_out \in RatingEnum
        /\ rating_raw = << >> => rating_out = "hold"

\* the empty string has been normalized
C2_Witness ==
    /\ rating_raw = << >>
    /\ rating_out = "hold"

-----------------------------------------------------------------------------
(* Ingestion: claims C3, C4, C5 (Spec) *)

Completed(p) == pc[p] = "idle" /\ call[p].outcome # "none"

CallTriple(p) ==
    <<call[p].data.stock_code, call[p].data.security_firm,
      strptime(call[p].data.report_date).date>>

RowsOfTriple(t) == { r \in reports : Triple(r) = t }

\* C3: a call that ran its existence check before a rival call for the same triple
\* committed (so that its own insert hits the unique index) still returns the
\* identifier of the row that holds the triple; no call with a well-formed date
\* ends in None.
C3_RaceReturnsExistingId ==
    \A p \in Workers :
        (Completed(p) /\ strptime(call[p].data.report_date).ok) =>
            /\ call[p].outcome \in {"created", "existing"}
            /\ \E r \in RowsOfTriple(CallTriple(p)) : call[p].ret = r.id

\* C4: a call for a triple for which an earlier, already returned call handed out
\* an identifier returns that same identifier, and the store holds exactly one row
\* for the triple.
C4_SequentialIdempotent ==
    \A p \in Workers :
        (Completed(p) /\ call[p].seen # {}) =>
            /\ call[p].outcome = "existing"
            /\ call[p].seen = {call[p].ret}
            /\ Cardinality(RowsOfTriple(CallTriple(p))) = 1

\* a triple has been ingested a second time, after the first call returned
C4_Witness ==
    \E p \in Workers :
        /\ Completed(p)
        /\ call[p].seen # {}
        /\ call[p].outcome = "existing"

\* C5: no two rows of consensus_reports share (stock_code, security_firm, report_date).
C5_UniqueTriple ==
    \A r1, r2 \in reports : Triple(r1) = Triple(r2) => r1 = r2

\* two workers raced on one triple and the second insert was rejected
C5_Witness ==
    \E p \in Workers :
        /\ call[p].outcome = "IntegrityError"
        /\ Cardinality(RowsOfTriple(CallTriple(p))) = 1

-----------------------------------------------------------------------------
(* Search: claims C6 - C9 (SpecQuery) *)

IsSearch == last.op = "search"

\* similarity of embedding row e to a query text encoded by `model`, in hundredths
SimilarityTo(model, query_text, e) ==
    cosine_similarity(Encode(model, query_text), pickle_loads(e.embedding)).value

\* the (embedding_row, report_row) pairs the recorded search may consider
Eligible ==
    { pair \in embeddings \X reports :
        /\ pair[1].report_id = pair[2].id
        /\ last.stock_code # None => pair[2].stock_code = last.stock_code }

\* the eligible pairs that reach the threshold of the recorded search
Qualifying ==
    { pair \in Eligible :
        SimilarityTo(last.model, last.query_text, pair[1]) >= last.similarity_threshold }

Ids(matches) == { matches[i].report_id : i \in DOMAIN matches }

\* C6: no returned match scores below the threshold, and an eligible row that scores
\* exactly the threshold survives the threshold step.
C6_ThresholdInclusive ==
    IsSearch =>
        /\ \A i \in DOMAIN last.result :
              last.result[i].similarity_score >= last.similarity_threshold
        /\ last.fault = "none" =>
              \A pair \in Eligible :
                  SimilarityTo(last.model, last.query_text, pair[1])
                        = last.similarity_threshold
                      => pair[2].id \in Ids(last.similarities)

\* a match that scores exactly the threshold has been returned
C6_Witness ==
    /\ IsSearch
    /\ \E i \in DOMAIN last.result :
          last.result[i].similarity_score = last.similarity_threshold

\* C7: the returned list is ordered by similarity descending and equal similarities
\* are ordered by report id ascending, whatever the scan order.
C7_SortedWithIdTieBreak ==
    IsSearch =>
        \A i, j \in DOMAIN last.result :
            i < j =>
                \/ last.result[i].similarity_score > last.result[j].similarity_score
                \/ /\ last.result[i].similarity_score = last.result[j].similarity_score
                   /\ last.result[i].report_id < last.result[j].report_id

\* C8: for a limit in LimitMin..LimitMax the result has at most limit entries and is
\* the first limit entries of the list of all eligible rows that reach the threshold,
\* sorted by similarity descending.
C8_LimitTruncates ==
    (IsSearch /\ last.limit \in LimitMin..LimitMax) =>
        /\ Len(last.result) <= last.limit
        /\ Len(last.result) = IF last.limit < Len(last.similarities)
                              THEN last.limit ELSE Len(last.similarities)
        /\ \A i \in DOMAIN last.result : last.result[i] = last.similarities[i]
        /\ last.fault = "none" =>
              Ids(last.similarities) = { pair[2].id : pair \in Qualifying }
        /\ \A i, j \in DOMAIN last.similarities :
              i < j => last.similarities[i].similarity_score
                          >= last.similarities[j].similarity_score

\* a search has cut the candidate list down to limit entries
C8_Witness ==
    /\ IsSearch
    /\ Len(last.similarities) > last.limit
    /\ Len(last.result) = last.limit

\* C9: a search with a stock_code filter returns only matches of that stock code.
C9_FilterRespected ==
    (IsSearch /\ last.stock_code # None) =>
        \A i \in DOMAIN last.result : last.result[i].stock_code = last.stock_code

\* a filtered search returned a match while an embedded report of another security
\* reached the threshold too
C9_Witness ==
    /\ IsSearch
    /\ last.stock_code # None
    /\ last.result # << >>
    /\ \E pair \in embeddings \X reports :
          /\ pair[1].report_id = pair[2].id
          /\ pair[2].stock_code # last.stock_code
          /\ SimilarityTo(last.model, last.query_text, pair[1])
                >= last.similarity_threshold

-----------------------------------------------------------------------------
(* Summary: claim C10 (SpecQuery) *)

IsSummary == last.op = "summary"

\* C10: the summary of a stock code without reports, when the store answers the query,
\* is returned, not raised, and is the not-found dictionary whose message carries the
\* stock code.
C10_EmptyIsNotFound ==
    (/\ IsSummary
     /\ last.fault = "none"
     /\ { r \in reports : r.stock_code = last.stock_code } = {}) =>
        /\ last.outcome = "return"
        /\ DOMAIN last.result = {"error"}
        /\ \E i \in DOMAIN last.result.error : last.result.error[i] = last.stock_code

\* a stock code without reports has been summarized while other securities have reports
C10_Witness ==
    /\ IsSummary
    /\ reports # {}
    /\ { r \in reports : r.stock_code = last.stock_code } = {}
    /\ last.fault = "none"
    /\ "error" \in DOMAIN last.result

\* the rows of the security the recorded summary was asked for
SummaryRows == { r \in reports : r.stock_code = last.stock_code }

\* the recorded summary returned an aggregate, not an error dictionary
IsAggregate == IsSummary /\ "error" \notin DOMAIN last.result

\* what the caller of the route sees of a summary of a security without reports
NotFoundView(stock_code) ==
    [shape  |-> DOMAIN NotFoundResult(stock_code),
     status |-> get_consensus(NotFoundResult(stock_code))]

\* C14: a persistence failure during get_consensus_summary reaches the caller as a
\* failure: either it is raised, or what is returned differs from the not-found result
\* in its shape and in the status the route answers with.
C14_StoreFailureIsNotNotFound ==
    (IsSummary /\ last.fault = "StoreFailure") =>
        \/ last.outcome = "raise"
        \/ /\ DOMAIN last.result # NotFoundView(last.stock_code).shape
           /\ last.http_status # NotFoundView(last.stock_code).status

RECURSIVE SumPrices(_)
SumPrices(rows) ==
    IF rows = {} THEN 0
    ELSE LET r == CHOOSE x \in rows : TRUE IN r.target_price + SumPrices(rows \ {r})

\* C11: the buy, hold and sell counts of a returned aggregate sum to its total report
\* count, and each count is the number of that security's rows with that normalized
\* rating.
C11_CountsPartitionReports ==
    IsAggregate =>
        LET d == last.result.rating_distribution IN
        /\ d["buy"] + d["hold"] + d["sell"] = last.result.total_reports
        /\ \A k \in RatingEnum :
              d[k] = Cardinality({ r \in SummaryRows : r.rating_norm = k })

\* a summary over three rows of one security, one per rating, with another security's
\* row absent or present
C11_Witness ==
    /\ IsAggregate
    /\ last.result.total_reports = 3
    /\ \A k \in RatingEnum : last.result.rating_distribution[k] = 1

\* C12 as stated: the returned mean target price (in hundredths) is exactly the
\* unweighted arithmetic mean of the security's target prices.
C12_MeanExact ==
    IsAggregate =>
        last.result.average_target_price * Cardinality(SummaryRows)
            = 100 * SumPrices(SummaryRows)

\* C12 amended: the returned mean target price is the unweighted arithmetic mean of
\* the security's target prices rounded to two decimals (a nearest hundredth).
C12_MeanRoundedToCents ==
    IsAggregate =>
        LET n == Cardinality(SummaryRows)
            diff == last.result.average_target_price * n - 100 * SumPrices(SummaryRows)
        IN  /\ 2 * diff <= n
            /\ 2 * (0 - diff) <= n

\* prices 100, 101, 101: the mean 100.666... is returned as 100.67
C12_Witness ==
    /\ IsAggregate
    /\ Cardinality(SummaryRows) = 3
    /\ SumPrices(SummaryRows) = 302
    /\ last.result.average_target_price = 10067

\* the query of the recorded search was encoded (model.encode did not raise)
QueryEncoded == IsSearch /\ last.fault # "EncodingFailure"

\* an eligible stored vector whose dimension differs from the query vector's
MismatchedPairs ==
    { pair \in Eligible :
        Len(pickle_loads(pair[1].embedding)) # Len(Encode(last.model, last.query_text)) }

\* C13: a search whose query encoding fails is aborted with a failure raised to the
\* caller; it does not return a result list.
C13_EncoderFailureSurfaces ==
    (IsSearch /\ last.fault = "EncodingFailure") => last.outcome = "raise"

\* C15: a search that meets a stored vector of another dimension than the query vector
\* fails with an error raised to the caller; it does not return a result list.
C15_DimensionMismatchFails ==
    (QueryEncoded /\ MismatchedPairs # {}) => last.outcome = "raise"

\* C17: when the query is encoded and every eligible stored vector has the query's
\* dimension and scores strictly below the threshold, the search returns normally with
\* an empty list.
C17_AllBelowThresholdIsEmpty ==
    ( /\ QueryEncoded
      /\ MismatchedPairs = {}
      /\ \A pair \in Eligible :
            SimilarityTo(last.model, last.query_text, pair[1]) < last.similarity_threshold )
    => /\ last.fault = "none"
       /\ last.outcome = "return"
       /\ last.result = << >>

\* threshold 0.8 against a store whose best match scores 0.6
C17_Witness ==
    /\ QueryEncoded
    /\ last.similarity_threshold = 80
    /\ Eligible # {}
    /\ MismatchedPairs = {}
    /\ \A pair \in Eligible : SimilarityTo(last.model, last.query_text, pair[1]) <= 60
    /\ \E pair \in Eligible : SimilarityTo(last.model, last.query_text, pair[1]) = 60
    /\ last.result = << >>

\* C16: an ingestion call whose embedding could not be encoded or stored has returned
\* the identifier of the report row it wrote, and that row is in the report store.
C16_EmbeddingFailureKeepsReport ==
    \A p \in Workers :
        (pc[p] = "idle" /\ call[p].embedded = "failed") =>
            /\ call[p].outcome = "created"
            /\ \E r \in reports : r.id = call[p].ret /\ Triple(r) = CallTriple(p)

\* a call returned the id of its new row although no embedding was stored for it
C16_Witness ==
    \E p \in Workers :
        /\ pc[p] = "idle"
        /\ call[p].embedded = "failed"
        /\ call[p].outcome = "created"
        /\ \E r \in reports : r.id = call[p].ret
        /\ \A e \in embeddings : e.report_id # call[p].ret

\* the embedding rows of a report id
EmbeddingsOf(embs, id) == { e \in embs : e.report_id = id }

\* worker p's save_embedding call for id commits and returns True in this step
SavedNow(p, id) ==
    /\ pc[p] = "emb_checked"
    /\ pc'[p] = "idle"
    /\ call[p].data.report_id = id
    /\ call'[p].ret = TRUE

\* C18: after every step the store holds at most one embedding per report id; a step
\* in which a save_embedding call for an id succeeds leaves exactly one embedding for
\* that id, the vector of that call's text; any other step leaves the id's embedding
\* as it was.  Hence after any interleaving of successful saves the id's embedding is
\* that of the save that succeeded last.
C18_OneEmbeddingLatestWins ==
    [][ \A id \in ReportIds :
          /\ Cardinality(EmbeddingsOf(embeddings', id)) <= 1
          /\ \A p \in Workers :
                SavedNow(p, id) =>
                    EmbeddingsOf(embeddings', id) =
                        { EmbeddingRow(id, pickle_dumps(generate_embedding(call[p].data.text))) }
          /\ (~ \E p \in Workers : SavedNow(p, id)) =>
                EmbeddingsOf(embeddings', id) = EmbeddingsOf(embeddings, id) ]_vars

\* both workers have saved different texts for the same report id with success, and
\* the store holds one embedding for it
C18_Witness ==
    /\ \A p \in Workers : pc[p] = "idle" /\ call[p].outcome = "return" /\ call[p].ret = TRUE
    /\ call["w1"].data.report_id = call["w2"].data.report_id
    /\ call["w1"].data.text # call["w2"].data.text
    /\ Cardinality(EmbeddingsOf(embeddings, call["w1"].data.report_id)) = 1

\* C19: no ingestion step removes or alters a report row: every row of the report store
\* is in the store after the step with all its fields as they were, so the number of
\* rows never decreases; a call that finds its triple stored leaves the row it returns
\* with its raw rating, normalized rating and target price.
C19_ReportsImmutable ==
    [][ /\ reports \subseteq reports'
        /\ Cardinality(reports') >= Cardinality(reports)
        /\ \A p \in Workers :
              call'[p].outcome = "existing" =>
                  \E r \in reports : r \in reports' /\ r.id = call'[p].ret ]_vars

\* a call has re-ingested a stored triple with another raw rating and target price
C19_Witness ==
    \E p \in Workers :
        /\ pc[p] = "idle"
        /\ call[p].outcome = "existing"
        /\ \E r \in reports :
              /\ r.id = call[p].ret
              /\ r.rating_raw # call[p].data.rating_raw
              /\ r.rating_norm # normalize_rating(call[p].data.rating_raw)
              /\ r.target_price # call[p].data.target_price

\* C20: a step that takes a summary, whatever its outcome, leaves the report store and
\* the embedding store unchanged.
C20_SummaryReadOnly ==
    [][ (last'.op = "summary" /\ last' # last) =>
            (reports' = reports /\ embeddings' = embeddings) ]_vars

\* summaries of each outcome have been taken over a store with reports and embeddings
C20_Witness ==
    /\ IsSummary
    /\ reports # {}
    /\ embeddings # {}
    /\ last.fault = "none"
    /\ "error" \notin DOMAIN last.result

\* C21: the latest report date of a returned aggregate is the greatest report date of
\* the security's rows, whatever the order the rows were loaded in.
C21_LatestDateIsMaximum ==
    IsAggregate =>
        \E r \in SummaryRows :
            /\ \A q \in SummaryRows : q.report_date <= r.report_date
            /\ last.result.latest_report_date = isoformat(r.report_date)

\* three rows with three dates, the latest date on the row with the lowest id
C21_Witness ==
    /\ IsAggregate
    /\ Cardinality(SummaryRows) = 3
    /\ Cardinality({ r.report_date : r \in SummaryRows }) = 3
    /\ \E r \in SummaryRows :
          /\ r.id = 1
          /\ \A q \in SummaryRows : q.report_date <= r.report_date
          /\ last.result.latest_report_date = isoformat(r.report_date)

\* C22: a summary during which the aggregation of a row failed returns no aggregate
\* view: neither counts nor a mean, over all rows or over the remaining ones.
C22_MalformedRowGivesNoAggregate ==
    (IsSummary /\ last.fault = "MalformedRow") =>
        /\ "rating_distribution" \notin DOMAIN last.result
        /\ "average_target_price" \notin DOMAIN last.result
        /\ "total_reports" \notin DOMAIN last.result

\* the aggregation of one of several rows of the security failed
C22_Witness ==
    /\ IsSummary
    /\ last.fault = "MalformedRow"
    /\ Cardinality(SummaryRows) >= 2
    /\ "error" \in DOMAIN last.result

\* C23: a search that ran without fault returns top-ranked candidates: no qualifying
\* candidate left out of the result scores strictly higher than a returned match; and
\* when fewer than limit matches are returned, every qualifying candidate is returned
\* exactly once.
C23_TopRanked ==
    (IsSearch /\ last.fault = "none") =>
        /\ \A pair \in Qualifying :
              pair[2].id \notin Ids(last.result) =>
                  \A i \in DOMAIN last.result :
                      SimilarityTo(last.model, last.query_text, pair[1])
                          <= last.result[i].similarity_score
        /\ Len(last.result) < last.limit =>
              /\ Ids(last.result) = { pair[2].id : pair \in Qualifying }
              /\ Len(last.result) = Cardinality(Qualifying)
              /\ Cardinality(Ids(last.result)) = Len(last.result)

\* limit 1 with two qualifying candidates of different scores: the better one is
\* returned and the other left out
C23_Witness ==
    /\ IsSearch
    /\ last.fault = "none"
    /\ last.limit = 1
    /\ Len(last.result) = 1
    /\ \E pair \in Qualifying :
          /\ pair[2].id \notin Ids(last.result)
          /\ SimilarityTo(last.model, last.query_text, pair[1])
                < last.result[1].similarity_score

\* C24: in every state of the ingestion path each embedding belongs to a committed
\* report row: its report id is the id of a row of the report store.
C24_EmbeddingHasReport ==
    \A e \in embeddings : \E r \in reports : r.id = e.report_id

\* two reports are committed and both have their embedding
C24_Witness ==
    /\ Cardinality(embeddings) = 2
    /\ \A e \in embeddings : \E r \in reports : r.id = e.report_id

\* C25: a step in which a call returns at once with the id of the stored row of its
\* triple writes nothing to the embedding store, so a report without an embedding
\* stays without one however often it is re-ingested.
C25_ReingestWritesNoEmbedding ==
    [][ (pc' = pc /\ \E p \in Workers : pc[p] = "idle" /\ call'[p].outcome = "existing")
            => embeddings' = embeddings ]_vars

\* a report_data with analysis_content was re-ingested for a stored report that has no
\* embedding, and the report still has none
C25_Witness ==
    \E p \in Workers :
        /\ pc[p] = "idle"
        /\ call[p].outcome = "existing"
        /\ "analysis_content" \in DOMAIN call[p].data
        /\ \E r \in reports : r.id = call[p].ret
        /\ \A e \in embeddings : e.report_id # call[p].ret

\* C26: the normalized rating of every persisted report is normalize_rating of the raw
\* rating stored in the same row.
C26_StoredRatingIsNormalized ==
    \A r \in reports : r.rating_norm = normalize_rating(r.rating_raw)

\* rows of different normalized ratings are stored, one of them from a Hangul rating
C26_Witness ==
    /\ \E r \in reports : r.rating_norm = "buy"
    /\ \E r \in reports : r.rating_norm = "sell" /\ r.rating_raw = <<"mae", "do">>

\* worker p's call fails in this step: its date does not parse when the duplicate query
\* is built, or its commit hits the unique index uk_report
FailsNow(p) ==
    \/ /\ pc' = pc
       /\ pc[p] = "idle"
       /\ call'[p].outcome # "none"
       /\ ~strptime(call'[p].data.report_date).ok
    \/ /\ pc[p] = "checked"
       /\ pc'[p] = "idle"
       /\ uk_report(reports, NewReport(nextId, call[p].data))

\* C27: a call of save_consensus_report that fails while checking or committing does
\* not raise: it returns None, and the step adds no report row.
C27_FailureReturnsNone ==
    [][ \A p \in Workers :
          FailsNow(p) =>
              /\ call'[p].outcome \in {"ValueError", "IntegrityError"}
              /\ call'[p].ret = None
              /\ reports' = reports ]_vars

\* one call failed on its date and another on the unique index, and the store holds
\* only the row of the call that won the race
C27_Witness ==
    /\ \A p \in Workers : pc[p] = "idle"
    /\ \E p, q \in Workers :
          /\ call[p].outcome = "ValueError" /\ call[p].ret = None
          /\ call[q].outcome = "IntegrityError" /\ call[q].ret = None
    /\ Cardinality(reports) = 1

\* the number of TRUE entries of a sequence of booleans
CountTrue(flags) == Cardinality({ i \in DOMAIN flags : flags[i] })

\* C28: in the result of every completed run of collect_and_process_data the processed
\* and failed counts add up to the total count, and the processed count is the number
\* of calls of the run that returned an identifier; a second run over the same data
\* reports the same processed count and leaves the number of report rows as it was.
C28_CollectCounts ==
    collect.phase # "none" =>
        /\ \A i \in DOMAIN collect.results :
              LET r == collect.results[i] IN
              /\ r.processed_count + r.failed_count = r.total_count
              /\ r.processed_count = CountTrue(r.returned)
        /\ Len(collect.results) >= 2 =>
              /\ collect.results[2].processed_count = collect.results[1].processed_count
              /\ collect.rows_after[2] = collect.rows_after[1]

\* two runs are complete; the data holds a report that is stored and one that fails
C28_Witness ==
    /\ collect.phase = "done"
    /\ Len(collect.results) = 2
    /\ collect.results[2].processed_count >= 1
    /\ collect.results[2].failed_count >= 1
    /\ collect.rows_after[2] >= 1

\* C29: a step that runs a search, whatever its arguments and its outcome, leaves the
\* report store and the embedding store unchanged.
C29_SearchReadOnly ==
    [][ (last'.op = "search" /\ last' # last) =>
            (reports' = reports /\ embeddings' = embeddings) ]_vars

\* a search ended in a failure over a store with reports and embeddings
C29_Witness ==
    /\ IsSearch
    /\ last.fault # "none"
    /\ reports # {}
    /\ embeddings # {}

IsInsight == last.op = "insight"

\* C30: the investment opinion follows from the rating distribution by the first case
\* that applies: buy ratio above 0.6, Strong Buy/High; buy ratio above 0.4, Buy/Medium;
\* sell ratio above 0.4, Sell/Medium; otherwise Hold/Low.  A buy ratio of exactly 0.6 is
\* Buy, a buy ratio above 0.4 wins over any sell ratio, and ratios of exactly 0.4 do not
\* count as above.
C30_OpinionThresholds ==
    IsInsight =>
        LET b == last.consensus_data.rating_distribution["buy"]
            s == last.consensus_data.rating_distribution["sell"]
            t == last.consensus_data.total_reports
            o == last.result
        IN  /\ (t > 0 /\ 5 * b > 3 * t) =>
                  (o.investment_opinion = "Strong Buy" /\ o.confidence = "High")
            /\ (t > 0 /\ 5 * b <= 3 * t /\ 5 * b > 2 * t) =>
                  (o.investment_opinion = "Buy" /\ o.confidence = "Medium")
            /\ (t > 0 /\ 5 * b <= 2 * t /\ 5 * s > 2 * t) =>
                  (o.investment_opinion = "Sell" /\ o.confidence = "Medium")
            /\ (t = 0 \/ (5 * b <= 2 * t /\ 5 * s <= 2 * t)) =>
                  (o.investment_opinion = "Hold" /\ o.confidence = "Low")

\* buy ratio and sell ratio are both above 0.4 and the opinion is Buy
C30_Witness ==
    /\ IsInsight
    /\ 5 * last.consensus_data.rating_distribution["buy"]
          > 2 * last.consensus_data.total_reports
    /\ 5 * last.consensus_data.rating_distribution["sell"]
          > 2 * last.consensus_data.total_reports
    /\ last.result.investment_opinion = "Buy"
====
